---- MODULE Spec2Model ----
(***************************************************************************)
(* Project Tracker dashboard (src/app.py): a cached CSV load, a boolean    *)
(* mask filter, a sort, and a single selection kept in the session state.  *)
(*                                                                         *)
(* One behaviour is one browser session of one server process.  Every     *)
(* user interaction changes the state of one widget and re-runs main()     *)
(* from its first line; an action of this module is that interaction       *)
(* together with the whole run of main() it triggers.                      *)
(*                                                                         *)
(* Encoding.  A cell that may be missing (NaN / None) is a sequence of     *)
(* length 0 or 1.  Text that is searched or ordered is a sequence of       *)
(* one-character strings.  "Initial Estimated Savings" is held in halves   *)
(* (3 is 1.5) so that int() truncates something.  A table is the sequence  *)
(* of its rows, each named by its place in RowPool.  A frame derived from  *)
(* the Dataset (df[mask], sort_values) is the sequence of the index labels *)
(* of its rows, which is what pandas keeps.                                *)
(***************************************************************************)
EXTENDS Integers, Sequences, FiniteSets, TLC

\* ------------------------------------------------------------------ bounds

\* Longest Dataset the input file may hold.
MaxRows == 2

\* Cap on the counter of successful reads of the input file.
MaxReads == 2

\* ------------------------------------------------------------------ values

None == <<>>

Some(v) == <<v>>

IsNA(c) == c = <<>>

Open == <<"O", "p", "e", "n">>

Closed == <<"C", "l", "o", "s", "e", "d">>

\* The rows an input file is made of.  Between them: a missing ID, a
\* duplicated ID (1), a missing Title, Area, General Area and savings value,
\* a fractional savings value (1.5), and equal values in every sort field.
RowPool ==
  << [ID |-> Some(1), Title |-> Some(<<"a", "B">>), Area |-> Some("X"),
     GeneralArea |-> Some("G1"), ProjectStatus |-> Some(Open),
     Savings |-> Some(4)],
    [ID |-> Some(2), Title |-> Some(<<"b">>), Area |-> None,
     GeneralArea |-> Some("G1"), ProjectStatus |-> Some(Closed),
     Savings |-> Some(2)],
    [ID |-> None, Title |-> None, Area |-> Some("X"),
     GeneralArea |-> None, ProjectStatus |-> Some(Open),
     Savings |-> Some(3)],
    [ID |-> Some(1), Title |-> Some(<<"b">>), Area |-> Some("X"),
     GeneralArea |-> Some("G1"), ProjectStatus |-> Some(Closed),
     Savings |-> None] >>

\* Every table the input file may hold: up to MaxRows rows under the header,
\* each row named by its place in RowPool.
Tables == UNION { [1..n -> 1..Len(RowPool)] : n \in 0..MaxRows }

\* Row i of table d
Row(d, i) == RowPool[d[i]]

\* What the user may type into the search box: nothing, a digit, two letters
\* in the other case, and two characters that mean something to re.
Queries == { <<>>, <<"1">>, <<"A", "b">>, <<".">>, <<"(">> }

\* ------------------------------------------------------------------ text

Digits == <<"0", "1", "2", "3", "4", "5", "6", "7", "8", "9">>

RECURSIVE Str(_)
\* str(n) of a non-negative integer
Str(n) == IF n < 10 THEN <<Digits[n + 1]>>
          ELSE Str(n \div 10) \o <<Digits[(n % 10) + 1]>>

\* df["ID"].astype(str) at row i: a column with a missing ID is read as
\* float64, so 1 is rendered "1.0" and the missing ID "nan"
StrID(d, i) ==
  IF \A j \in 1..Len(d) : ~IsNA(Row(d, j).ID) THEN Str(Row(d, i).ID[1])
  ELSE IF IsNA(Row(d, i).ID) THEN <<"n", "a", "n">>
  ELSE Str(Row(d, i).ID[1]) \o <<".", "0">>

\* Unicode code point of the characters the model uses
CodePoint(c) ==
  CASE c = "(" -> 40 [] c = "." -> 46
    [] c = "0" -> 48 [] c = "1" -> 49 [] c = "2" -> 50 [] c = "3" -> 51
    [] c = "4" -> 52 [] c = "5" -> 53 [] c = "6" -> 54 [] c = "7" -> 55
    [] c = "8" -> 56 [] c = "9" -> 57
    [] c = "A" -> 65 [] c = "B" -> 66 [] c = "C" -> 67 [] c = "O" -> 79
    [] c = "a" -> 97 [] c = "b" -> 98 [] c = "d" -> 100 [] c = "e" -> 101
    [] c = "l" -> 108 [] c = "n" -> 110 [] c = "o" -> 111 [] c = "p" -> 112
    [] c = "s" -> 115

\* Case folding of re.IGNORECASE
Lower(c) == CASE c = "A" -> "a" [] c = "B" -> "b" [] c = "C" -> "c"
              [] c = "O" -> "o" [] OTHER -> c

RECURSIVE StrLess(_, _)
\* Python's < on str: lexicographic by code point
StrLess(a, b) ==
  IF b = <<>> THEN FALSE
  ELSE IF a = <<>> THEN TRUE
  ELSE IF CodePoint(a[1]) # CodePoint(b[1])
       THEN CodePoint(a[1]) < CodePoint(b[1])
  ELSE StrLess(Tail(a), Tail(b))

\* ------------------------------------------------------------------ loader

\* LoadData without the decorator: every call reads the file, nothing is kept
LoadDataUncached(c, f) ==
  IF f = None THEN [raised |-> TRUE, df |-> None, cache |-> c, reads |-> 0]
  ELSE [raised |-> FALSE, df |-> f, cache |-> c, reads |-> 1]

\* load_data under @st.cache_data, called with the default path.  c is the
\* cache entry for that path, f the input file (None: no such file).  A hit
\* returns the entry without touching the file; a miss reads and parses the
\* file and stores the result; a load that raises stores nothing.
LoadData(c, f) ==
  IF c # None THEN [raised |-> FALSE, df |-> c, cache |-> c, reads |-> 0]
  ELSE IF f = None THEN [raised |-> TRUE, df |-> None, cache |-> c, reads |-> 0]
  ELSE [raised |-> FALSE, df |-> f, cache |-> f, reads |-> 1]

\* ------------------------------------------------------------------ sidebar

Labels(d) == [i \in 1..Len(d) |-> i]

\* df[col].dropna().unique(): the distinct present values of a column
Options(d, col) == { Row(d, i)[col][1] : i \in { j \in 1..Len(d) : ~IsNA(Row(d, j)[col]) } }

\* st.sidebar.multiselect(options=o, default=o): the stored state, else the default
Multiselect(state, options) == IF state = None THEN options ELSE state[1]

SetMin(S) == CHOOSE x \in S : \A y \in S : x <= y

SetMax(S) == CHOOSE x \in S : \A y \in S : x >= y

\* int() of a non-negative float held in halves
PyInt(h) == h \div 2

\* Series.min() / .max() skip NaN; of no value at all they are NaN
MinSav(d) == PyInt(SetMin(Options(d, "Savings")))

MaxSav(d) == PyInt(SetMax(Options(d, "Savings")))

\* st.sidebar.slider(min_value, max_value, value=(min_value, max_value))
Slider(state, lo, hi) == IF state = None THEN <<lo, hi>> ELSE state[1]

\* st.sidebar.text_input(label, "")
TextInput(state) == IF state = None THEN <<>> ELSE state[1]

\* ------------------------------------------------------------------ filter

\* re.compile(pat) succeeds: of the characters modelled only "(" cannot stand alone
RegexCompiles(pat) == \A j \in 1..Len(pat) : pat[j] # "("

\* re.search(pat, text, re.IGNORECASE) finds a match: Series.str.contains has
\* regex=True by default, so "." stands for any one character
Contains(pat, text) ==
  \E i \in 1..(Len(text) - Len(pat) + 1) :
     \A j \in 1..Len(pat) :
        pat[j] = "." \/ Lower(pat[j]) = Lower(text[i + j - 1])

\* df["ID"].astype(str).str.contains(q, case=False, na=False)
\*   | df["Title"].str.contains(q, case=False, na=False)
SearchMask(d, i, q) ==
  \/ Contains(q, StrID(d, i))
  \/ ~IsNA(Row(d, i).Title) /\ Contains(q, Row(d, i).Title[1])

\* What evaluating the search mask raises ("" if nothing): re.error for a
\* pattern that does not compile, AttributeError from .str on a Title column
\* that holds no string at all (pandas reads it as float64)
SearchRaises(d, q) ==
  IF q = <<>> THEN ""
  ELSE IF ~RegexCompiles(q) THEN "re.error"
  ELSE IF \A i \in 1..Len(d) : IsNA(Row(d, i).Title) THEN "AttributeError"
  ELSE ""

\* Series.isin(selected)
IsIn(cell, selected) == ~IsNA(cell) /\ cell[1] \in selected

\* Series.between(lo, hi): inclusive at both ends, False for NaN
Between(cell, lo, hi) == ~IsNA(cell) /\ 2 * lo <= cell[1] /\ cell[1] <= 2 * hi

\* The mask at row i: c holds what the widgets returned
Mask(d, c, i) ==
  LET row == Row(d, i)
  IN
  /\ (c.query # <<>>) => SearchMask(d, i, c.query)
  /\ (Cardinality(c.areas) < Cardinality(Options(d, "Area")))
        => IsIn(row.Area, c.areas)
  /\ (Cardinality(c.status) < Cardinality(Options(d, "ProjectStatus")))
        => IsIn(row.ProjectStatus, c.status)
  /\ Between(row.Savings, c.savings[1], c.savings[2])
  /\ (Cardinality(c.gen) < Cardinality(Options(d, "GeneralArea")))
        => IsIn(row.GeneralArea, c.gen)

\* df[mask]: the labels of the rows kept, in Dataset order
Filter(d, c) == SelectSeq(Labels(d), LAMBDA i : Mask(d, c, i))

\* Lines 24-64 of main(): the widgets up to the search box, then the mask.
\* a, s, v, g, q are the stored states of the five widgets.  raised names the
\* exception that ends the run ("" if none); reached tells how far it got.
Sidebar(d, a, s, v, g, q) ==
  LET areas == Multiselect(a, Options(d, "Area"))
      status == Multiselect(s, Options(d, "ProjectStatus"))
  IN IF Options(d, "Savings") = {}
     THEN [raised |-> "ValueError", areas |-> areas, status |-> status,
           savings |-> <<0, 0>>, gen |-> {}, query |-> <<>>, filtered |-> <<>>]
     ELSE LET savings == Slider(v, MinSav(d), MaxSav(d))
              gen == Multiselect(g, Options(d, "GeneralArea"))
              query == TextInput(q)
              c == [areas |-> areas, status |-> status, savings |-> savings,
                    gen |-> gen, query |-> query]
              err == SearchRaises(d, query)
          IN [raised |-> err, areas |-> areas, status |-> status,
              savings |-> savings, gen |-> gen, query |-> query,
              filtered |-> IF err = "" THEN Filter(d, c) ELSE <<>>]

\* ------------------------------------------------------------------ sort

\* sort_columns, the options of the "Sort by" selectbox
SortColumns == {"ID", "Title", "Initial Estimated Savings", "Project Status"}

\* st.sidebar.selectbox("Sort by", options=sort_columns, index=2)
Selectbox(state) == IF state = None THEN "Initial Estimated Savings" ELSE state[1]

\* st.sidebar.checkbox("Ascending order", value=False)
Checkbox(state) == IF state = None THEN FALSE ELSE state[1]

\* The cell of a row in a sort column
Cell(row, by) ==
  CASE by = "ID" -> row.ID
    [] by = "Title" -> row.Title
    [] by = "Initial Estimated Savings" -> row.Savings
    [] by = "Project Status" -> row.ProjectStatus

\* The natural order of a sort column: numbers as numbers, text as str
KeyLess(by, x, y) ==
  IF by \in {"ID", "Initial Estimated Savings"} THEN x < y ELSE StrLess(x, y)

Range(s) == { s[i] : i \in 1..Len(s) }

Perms(f) == { p \in [1..Len(f) -> Range(f)] : \A i, j \in 1..Len(f) : p[i] = p[j] => i = j }

\* p is f in the order of column by: present cells first, in the asked
\* direction; missing cells last (na_position="last") in the order they had
InOrder(d, p, by, asc) ==
  \A i, j \in 1..Len(p) :
     i < j =>
       LET x == Cell(Row(d, p[i]), by)
           y == Cell(Row(d, p[j]), by)
       IN /\ IsNA(x) => IsNA(y)
          /\ (IsNA(x) /\ IsNA(y)) => p[i] < p[j]
          /\ (~IsNA(x) /\ ~IsNA(y)) =>
                IF asc THEN ~KeyLess(by, y[1], x[1]) ELSE ~KeyLess(by, x[1], y[1])

\* filtered_df.sort_values(by=by, ascending=asc): kind is left at its default,
\* "quicksort", which pandas documents as not stable, so rows with equal cells
\* come out in whichever order the numpy build produces.  The set of the
\* frames the call may return.
SortValues(d, f, by, asc) == { p \in Perms(f) : InOrder(d, p, by, asc) }

\* ------------------------------------------------------------------ selection

\* InitSelection without its "not in" test: the selection is reset in every run
InitSelectionAlways(has, sel) == None

\* if "selected_proj" not in st.session_state: st.session_state.selected_proj = None
InitSelection(has, sel) == IF has THEN sel ELSE None

\* ButtonLoop storing idx, the position in the list (from 0), not row["ID"]
ButtonLoopStoresIdx(d, listed, click, sel) ==
  IF click = 0 THEN sel ELSE Some(Some(click - 1))

\* The loop over filtered_display: the button of row click (0: none) returns
\* True in the run its click triggers, and the row's ID is stored
ButtonLoop(d, listed, click, sel) ==
  IF click = 0 THEN sel ELSE Some(Row(d, listed[click]).ID)

\* Python's truth value of the stored selection: None and 0 are false, NaN
\* (the ID of a row that has none) is true
Truthy(sel) == sel # None /\ sel[1] # Some(0)

\* df[df["ID"] == selected]: the labels of the rows of the full Dataset with
\* that ID; NaN equals nothing, itself included
Matching(d, id) == SelectSeq(Labels(d), LAMBDA i : ~IsNA(id) /\ Row(d, i).ID = id)

\* Lines 76-104 of main(): the list with its buttons, then the details
Listing(d, listed, click, has, sel) ==
  IF listed = <<>>
  THEN [view |-> "no_matches", has |-> has, sel |-> sel, detail |-> 0]
  ELSE LET now == ButtonLoop(d, listed, click, InitSelection(has, sel))
       IN IF ~Truthy(now)
          THEN [view |-> "list", has |-> TRUE, sel |-> now, detail |-> 0]
          ELSE IF Matching(d, now[1]) = <<>>
          THEN [view |-> "not_found", has |-> TRUE, sel |-> now, detail |-> 0]
          ELSE [view |-> "detail", has |-> TRUE, sel |-> now,
                detail |-> Matching(d, now[1])[1]]

\* DfAfterRun had the sort been done on df itself with inplace=True
DfSortedInPlace(d, listed) == [i \in 1..Len(listed) |-> d[listed[i]]]

\* df as main() leaves it: df[mask], sort_values and reset_index all return
\* new frames, and df is never assigned to
DfAfterRun(d, listed) == d

\* ------------------------------------------------------------------ state

VARIABLES
  file,               \* the input file: None (no such file) or Some(table)
  cache,              \* st.cache_data's entry for the default path, or None
  reads,              \* how many times the file has been read and parsed
  df,                 \* df of the last run of main() as the run left it, or None
  w_areas,            \* stored state of each widget: None until it is first run
  w_status,
  w_savings,
  w_gen,
  w_query,
  w_sort_by,
  w_ascending,
  has_selected_proj,  \* "selected_proj" in st.session_state
  selected_proj,      \* st.session_state.selected_proj: None or Some(ID cell)
  filtered,           \* df[mask] of the last run: labels in Dataset order
  listed,             \* filtered_display of the last run: labels in listed order
  clicked,            \* position of the button that returned True, 0 if none
  view,               \* how the last run ended
  detail              \* label of the row whose details the last run showed, or 0

widgets == <<w_areas, w_status, w_savings, w_gen, w_query, w_sort_by, w_ascending>>

session == <<has_selected_proj, selected_proj>>

vars == <<file, cache, reads, df, widgets, session, filtered, listed, clicked, view, detail>>

\* How a run of main() may end: by an exception ("load_error" from load_data,
\* "ValueError" from int(NaN), "re.error" and "AttributeError" from the search
\* mask) or at its last line, having shown one of four things
Aborted == {"load_error", "ValueError", "re.error", "AttributeError"}

Completed == {"no_matches", "list", "not_found", "detail"}

Init ==
  /\ file \in {None} \cup { Some(t) : t \in Tables }
  /\ cache = None
  /\ reads = 0
  /\ df = None
  /\ w_areas = None /\ w_status = None /\ w_savings = None /\ w_gen = None
  /\ w_query = None /\ w_sort_by = None /\ w_ascending = None
  /\ has_selected_proj = FALSE
  /\ selected_proj = None
  /\ filtered = <<>>
  /\ listed = <<>>
  /\ clicked = 0
  /\ view = "none"
  /\ detail = 0

\* One run of main(), lines 13-104, with the widgets' stored states a, s, v,
\* g, q, by, asc and the button at position click pressed (0: none).  ld, sb
\* and ls are what load_data, the sidebar and the listing come to; p is the
\* frame sort_values returns.
Run(a, s, v, g, q, by, asc, click) ==
  \E ld \in {LoadData(cache, file)} :
     /\ (ld.reads = 1) => reads < MaxReads
     /\ UNCHANGED file
     /\ cache' = ld.cache
     /\ reads' = reads + ld.reads
     /\ IF ld.raised
        THEN /\ view' = "load_error"
             /\ df' = None
             /\ filtered' = <<>> /\ listed' = <<>> /\ clicked' = 0 /\ detail' = 0
             /\ UNCHANGED <<widgets, session>>
        ELSE \E sb \in {Sidebar(ld.df[1], a, s, v, g, q)} :
                /\ w_areas' = Some(sb.areas)
                /\ w_status' = Some(sb.status)
                /\ IF sb.raised = "ValueError"
                   THEN w_savings' = v /\ w_gen' = g /\ w_query' = q
                   ELSE /\ w_savings' = Some(sb.savings)
                        /\ w_gen' = Some(sb.gen)
                        /\ w_query' = Some(sb.query)
                /\ IF sb.raised # ""
                   THEN /\ view' = sb.raised
                        /\ df' = ld.df
                        /\ w_sort_by' = by /\ w_ascending' = asc
                        /\ filtered' = <<>> /\ listed' = <<>>
                        /\ clicked' = 0 /\ detail' = 0
                        /\ UNCHANGED session
                   ELSE \E p \in SortValues(ld.df[1], sb.filtered, Selectbox(by), Checkbox(asc)) :
                        \E ls \in {Listing(ld.df[1], p, click, has_selected_proj, selected_proj)} :
                           /\ click \in 0..Len(p)
                           /\ w_sort_by' = Some(Selectbox(by))
                           /\ w_ascending' = Some(Checkbox(asc))
                           /\ filtered' = sb.filtered
                           /\ listed' = p
                           /\ clicked' = click
                           /\ view' = ls.view
                           /\ detail' = ls.detail
                           /\ has_selected_proj' = ls.has
                           /\ selected_proj' = ls.sel
                           /\ df' = Some(DfAfterRun(ld.df[1], p))

\* Which widgets the last run got to create: only those can be changed
AreasRendered == view \notin {"none", "load_error"}

SliderRendered == AreasRendered /\ view # "ValueError"

SortRendered == view \in Completed

ButtonsRendered == view \in {"list", "not_found", "detail"}

\* The first run of a session, and any re-run that changes no widget
Rerun ==
  Run(w_areas, w_status, w_savings, w_gen, w_query, w_sort_by, w_ascending, 0)

ChangeAreas ==
  /\ AreasRendered
  /\ \E S \in SUBSET Options(cache[1], "Area") :
        /\ Some(S) # w_areas
        /\ Run(Some(S), w_status, w_savings, w_gen, w_query, w_sort_by, w_ascending, 0)

ChangeStatus ==
  /\ AreasRendered
  /\ \E S \in SUBSET Options(cache[1], "ProjectStatus") :
        /\ Some(S) # w_status
        /\ Run(w_areas, Some(S), w_savings, w_gen, w_query, w_sort_by, w_ascending, 0)

ChangeSavings ==
  /\ SliderRendered
  /\ \E lo, hi \in MinSav(cache[1])..MaxSav(cache[1]) :
        /\ lo <= hi
        /\ Some(<<lo, hi>>) # w_savings
        /\ Run(w_areas, w_status, Some(<<lo, hi>>), w_gen, w_query, w_sort_by, w_ascending, 0)

ChangeGeneralAreas ==
  /\ SliderRendered
  /\ \E S \in SUBSET Options(cache[1], "GeneralArea") :
        /\ Some(S) # w_gen
        /\ Run(w_areas, w_status, w_savings, Some(S), w_query, w_sort_by, w_ascending, 0)

ChangeQuery ==
  /\ SliderRendered
  /\ \E q \in Queries :
        /\ Some(q) # w_query
        /\ Run(w_areas, w_status, w_savings, w_gen, Some(q), w_sort_by, w_ascending, 0)

ChangeSortBy ==
  /\ SortRendered
  /\ \E by \in SortColumns :
        /\ Some(by) # w_sort_by
        /\ Run(w_areas, w_status, w_savings, w_gen, w_query, Some(by), w_ascending, 0)

ToggleAscending ==
  /\ SortRendered
  /\ Run(w_areas, w_status, w_savings, w_gen, w_query, w_sort_by,
         Some(~Checkbox(w_ascending)), 0)

ClickViewDetails ==
  /\ ButtonsRendered
  /\ \E i \in 1..Len(listed) :
        Run(w_areas, w_status, w_savings, w_gen, w_query, w_sort_by, w_ascending, i)

Next ==
  \/ Rerun
  \/ ChangeAreas
  \/ ChangeStatus
  \/ ChangeSavings
  \/ ChangeGeneralAreas
  \/ ChangeQuery
  \/ ChangeSortBy
  \/ ToggleAscending
  \/ ClickViewDetails

Spec == Init /\ [][Next]_vars

\* ------------------------------------------------------------------ claims

\* The criteria of the last completed run, as the widgets returned them
Criteria ==
  [areas |-> w_areas[1], status |-> w_status[1], savings |-> w_savings[1],
   gen |-> w_gen[1], query |-> w_query[1]]

\* The last run used the default criteria
DefaultCriteria ==
  /\ w_query = Some(<<>>)
  /\ w_areas = Some(Options(df[1], "Area"))
  /\ w_status = Some(Options(df[1], "ProjectStatus"))
  /\ w_gen = Some(Options(df[1], "GeneralArea"))
  /\ w_savings = Some(<<MinSav(df[1]), MaxSav(df[1])>>)

\* q is a case-insensitive substring of text, character for character
Substring(q, text) ==
  \E i \in 1..(Len(text) - Len(q) + 1) :
     \A j \in 1..Len(q) : Lower(q[j]) = Lower(text[i + j - 1])

\* The AND of the active predicates as the claim C3 states them
ClaimedMask(d, c, i) ==
  LET row == Row(d, i)
  IN
  /\ (c.query # <<>>) =>
        \/ Substring(c.query, StrID(d, i))
        \/ ~IsNA(Row(d, i).Title) /\ Substring(c.query, Row(d, i).Title[1])
  /\ (c.areas # Options(d, "Area")) => IsIn(row.Area, c.areas)
  /\ (c.status # Options(d, "ProjectStatus")) => IsIn(row.ProjectStatus, c.status)
  /\ (c.gen # Options(d, "GeneralArea")) => IsIn(row.GeneralArea, c.gen)
  /\ ~IsNA(row.Savings)
  /\ 2 * c.savings[1] <= row.Savings[1]
  /\ row.Savings[1] <= 2 * c.savings[2]

\* The rows of p with equal cells in column by are in the order of their
\* labels, which is the order the filter gave them
TiesKeepOrder(d, p, by) ==
  \A i, j \in 1..Len(p) :
     (i < j /\ Cell(Row(d, p[i]), by) = Cell(Row(d, p[j]), by)) => p[i] < p[j]

\* C1: once an identifier is stored as the selection, a run whose Dataset has
\* a row with that ID shows the details of such a row, whatever the filter
\* criteria and the sort spec are.
C1_DetailWhateverFilter ==
  (/\ view \in Completed
   /\ selected_proj # None
   /\ Matching(df[1], selected_proj[1]) # <<>>)
  => (/\ view = "detail"
      /\ detail \in Range(Matching(df[1], selected_proj[1])))

\* C2: with the default criteria the filter returns every row of the Dataset,
\* in Dataset order.
C2_DefaultCriteriaKeepAll ==
  (view \in Completed /\ DefaultCriteria) => filtered = Labels(df[1])

\* C3: the filtered subset is exactly the rows that satisfy every active
\* predicate as the claim states them (the text predicate being a
\* case-insensitive substring test), in Dataset order.
C3_FilterIsConjunction ==
  view \in Completed =>
     filtered = SelectSeq(Labels(df[1]), LAMBDA i : ClaimedMask(df[1], Criteria, i))

\* C4: the sort is stable: listed rows with equal values in the sort field
\* are in the order the filter gave them.
C4_SortStable ==
  view \in Completed => TiesKeepOrder(df[1], listed, w_sort_by[1])

\* C5: once the Dataset has loaded no run is ended by an exception, and a run
\* whose filtered subset is empty ends in the "no matches" display.
C5_OnlyLoadErrorAborts ==
  /\ cache # None => view \notin Aborted
  /\ (view \in Completed /\ filtered = <<>>) => view = "no_matches"

\* C6: a run whose stored selection is the ID of no row of the Dataset ends
\* in the "not found" display and shows no record.
C6_StaleSelectionNotFound ==
  (/\ view \in Completed
   /\ selected_proj # None
   /\ Matching(df[1], selected_proj[1]) = <<>>)
  => (view = "not_found" /\ detail = 0)

\* C7: the selection starts as none; a run in which a "view details" button
\* was pressed leaves it equal to the ID of the row of that button; every
\* other run, whatever it changes in the criteria or the sort spec, leaves it
\* as it was; once set it is never none again.
C7_SelectionLifecycle ==
  /\ selected_proj = None
  /\ [][ /\ (clicked' # 0) =>
               selected_proj' = Some(Row(df'[1], listed'[clicked']).ID)
         /\ (clicked' = 0) => selected_proj' = selected_proj
         /\ (selected_proj # None) => selected_proj' # None ]_vars

\* C7 witness: a selection made earlier has survived a change of criteria
\* that left no row listed.
C7_Witness ==
  /\ selected_proj # None
  /\ clicked = 0
  /\ view = "no_matches"
  /\ ~DefaultCriteria

\* C8: whatever the runs did, the Dataset has the rows, values and order the
\* load gave it.
C8_DatasetUnchanged ==
  /\ df # None => df = file
  /\ cache # None => cache = file

\* C8 witness: a run with criteria other than the default has listed the rows
\* in another order than the Dataset's, taken a click and shown details.
C8_Witness ==
  /\ view = "detail"
  /\ clicked # 0
  /\ ~DefaultCriteria
  /\ Len(listed) > 1
  /\ listed # filtered

\* C9: the input file is read and parsed at most once; the first load fills
\* the cache, every later run gets a Dataset equal to it without a read, and
\* the entry is never dropped or replaced.
C9_ReadOnce ==
  /\ [](/\ reads <= 1
        /\ (reads = 1) <=> (cache # None)
        /\ df # None => df = cache)
  /\ [][cache # None => (cache' = cache /\ reads' = reads)]_vars

\* C9 witness: the file was read once and a later run took a click.
C9_Witness ==
  /\ reads = 1
  /\ clicked # 0
  /\ w_sort_by # Some("Initial Estimated Savings")

\* Every row of table d has an ID
AllIDsPresent(d) == \A i \in 1..Len(d) : ~IsNA(Row(d, i).ID)

\* C10: when every row of the Dataset has an ID, the stored selection is
\* none or the ID of a row of the full Dataset, and no run ends in the "not
\* found" display.
C10_SelectionIsARow ==
  (cache # None /\ AllIDsPresent(cache[1])) =>
     /\ selected_proj # None => Matching(cache[1], selected_proj[1]) # <<>>
     /\ view # "not_found"

\* C10 witness: the details shown are of a selection whose ID no listed row has.
C10_Witness ==
  /\ view = "detail"
  /\ AllIDsPresent(cache[1])
  /\ listed # <<>>
  /\ \A i \in 1..Len(listed) : Row(df[1], listed[i]).ID # selected_proj[1]

====
